---- MODULE Spec2Model ----
(***************************************************************************)
(* Model of music_assistant/web.py: the three command protocols of the     *)
(* Web class (REST player_command, the /ws websocket_handler and the LMS   *)
(* json_rpc endpoint) and the life cycle of a websocket session together   *)
(* with the event listener registry it registers with.                     *)
(*                                                                         *)
(* Python values: a str is a TLA+ string; an optional value is a tuple,    *)
(* <<>> for None and <<v>> for the value v.                                *)
(***************************************************************************)
EXTENDS Integers, Sequences, FiniteSets, TLC

\* ------------------------------------------------------------------ bounds
\* number of websocket connections the server accepts
NumConn == 2
\* longest LMS word list (params[1]) a json_rpc request carries
MaxWords == 3
\* most `/`-separated tokens in a socket text frame
MaxTokens == 6

\* ------------------------------------------------------- python primitives
None == <<>>
Some(x) == <<x>>

\* str.startswith
StartsWith(s, p) == Len(s) >= Len(p) /\ SubSeq(s, 1, Len(p)) = p

\* the `in` operator on two str values
Contains(s, p) ==
  \E i \in 1..(Len(s) - Len(p) + 1) : SubSeq(s, i, i + Len(p) - 1) = p

\* str.split(sep) for a one-character separator: scan s from position i, the
\* piece under way starting at position b
RECURSIVE SplitFrom(_, _, _, _)
SplitFrom(s, sep, i, b) ==
  IF i > Len(s) THEN <<SubSeq(s, b, Len(s))>>
  ELSE IF SubSeq(s, i, i) = sep
  THEN <<SubSeq(s, b, i - 1)>> \o SplitFrom(s, sep, i + 1, i + 1)
  ELSE SplitFrom(s, sep, i + 1, b)

Split(s, sep) == SplitFrom(s, sep, 1, 1)

\* sep.join(words)
RECURSIVE Join(_, _)
Join(words, sep) ==
  IF Len(words) = 0 THEN ""
  ELSE IF Len(words) = 1 THEN words[1]
  ELSE words[1] \o sep \o Join(Tail(words), sep)

\* truth value of an optional str: None and "" are falsy
Truthy(opt) == opt # None /\ opt[1] # ""

\* ------------------------------------------------- players (collaborator)
\* the players known to mass.players, in the order the registry holds them
PlayerIds == {"p1", "p2"}
PlayerList == <<"p1", "p2">>

\* player.name
PlayerName(player_id) == IF player_id = "p1" THEN "Kitchen" ELSE "Bath"

\* mass.players.get_player: the player, or None
get_player(player_id) ==
  IF player_id \in PlayerIds THEN Some(player_id) ELSE None

\* the coroutine methods of a Player that the gateway calls
Capabilities ==
  {"play", "pause", "stop", "next", "previous", "power", "volume_set",
   "volume_mute", "volume_up", "volume_down", "power_toggle"}

\* the capabilities that take one argument
ArgCapabilities == {"power", "volume_set", "volume_mute"}

\* plain (non-callable, truthy) attributes of a Player
DataAttributes == {"name"}

\* attributes every Python object has, None included; calling one and
\* awaiting what it returns raises TypeError
ObjectAttributes == {"__class__"}

\* getattr(player, cmd, None): the kind of value found
getattr(player, cmd) ==
  IF cmd \in ObjectAttributes THEN "builtin"
  ELSE IF player = None THEN "none"
  ELSE IF cmd \in Capabilities THEN "method"
  ELSE IF cmd \in DataAttributes THEN "data"
  ELSE "none"

\* what awaiting a capability can do: return, or raise
Outcomes == {"ok", "raise"}

\* player.<cap>(*args) awaited: the capability's own outcome oc, except that a
\* call with the wrong number of arguments raises TypeError
AwaitCall(cap, args, oc) ==
  IF (cap \in ArgCapabilities) # (Len(args) = 1) THEN "raise" ELSE oc

\* the outcome of one handler run: the capability calls it made, what it
\* replied (None when nothing was written) and the exception that left it
Outcome(calls, reply, error) ==
  [calls |-> calls, reply |-> reply, error |-> error]

\* `await player_cmd(*args)` for the value getattr found; `reply` is
\* what the handler answers once the call has returned
CallAttr(kind, cmd, args, oc, reply) ==
  IF kind = "method"
  THEN IF AwaitCall(cmd, args, oc) = "ok"
       THEN Outcome(<<[cap |-> cmd, args |-> args]>>, reply, "none")
       ELSE Outcome(<<[cap |-> cmd, args |-> args]>>, None, "InvocationError")
  ELSE Outcome(<<>>, None, "TypeError")

\* Python argument values: a str, a bool or None
Str(v) == [t |-> "str", v |-> v]
PyBool(b) == [t |-> "bool", v |-> IF b THEN "True" ELSE "False"]
PyNone == [t |-> "NoneType", v |-> "None"]

\* the positional arguments of a call made with the optional str cmd_args
ArgsOf(cmd_args) == IF cmd_args = None THEN <<>> ELSE <<Str(cmd_args[1])>>

\* ------------------------------------------------------------ REST protocol
\* Web.player_command for match_info (player_id, cmd, cmd_args); the reply is
\* the json of `result`
player_command(player_id, cmd, cmd_args, oc) ==
  LET player == get_player(player_id)
      player_cmd == getattr(player, cmd)
  IN  IF player # None
      THEN IF player_cmd # "none" /\ cmd_args # None
           THEN CallAttr(player_cmd, cmd, ArgsOf(cmd_args), oc, Some("result"))
           ELSE IF player_cmd # "none"
           THEN CallAttr(player_cmd, cmd, <<>>, oc, Some("result"))
           ELSE Outcome(<<>>, Some("false"), "none")
      ELSE Outcome(<<>>, Some("false"), "none")

\* ---------------------------------------------------------- socket protocol
\* the order of str values: by the code points of their characters
Alphabet == "ABCDEFGHIJKLMNOPQRSTUVWXYZabcdefghijklmnopqrstuvwxyz"
Ord(ch) == CHOOSE i \in 1..Len(Alphabet) : SubSeq(Alphabet, i, i) = ch

RECURSIVE StrLess(_, _)
StrLess(a, b) ==
  IF Len(a) = 0 THEN Len(b) > 0
  ELSE IF Len(b) = 0 THEN FALSE
  ELSE IF SubSeq(a, 1, 1) = SubSeq(b, 1, 1)
  THEN StrLess(SubSeq(a, 2, Len(a)), SubSeq(b, 2, Len(b)))
  ELSE Ord(SubSeq(a, 1, 1)) < Ord(SubSeq(b, 1, 1))

\* list.sort(key=lambda x: x.name): insert each player, in list order, after
\* the players whose name is not greater (the sort is stable)
RECURSIVE InsertByName(_, _)
InsertByName(sorted, x) ==
  IF Len(sorted) = 0 THEN <<x>>
  ELSE IF StrLess(PlayerName(x), PlayerName(Head(sorted)))
  THEN <<x>> \o sorted
  ELSE <<Head(sorted)>> \o InsertByName(Tail(sorted), x)

RECURSIVE SortByName(_)
SortByName(players) ==
  IF Len(players) = 0 THEN <<>>
  ELSE InsertByName(SortByName(SubSeq(players, 1, Len(players) - 1)),
                    players[Len(players)])

\* a player as json_serializer writes it
PlayerJson(player_id) == [player_id |-> player_id, name |-> PlayerName(player_id)]

\* a listing that skips players.sort
players_message_unsorted ==
  [message |-> "players",
   message_details |-> [i \in 1..Len(PlayerList) |-> PlayerJson(PlayerList[i])]]

\* ws_msg of the `players` branch: all players, ordered by name
players_message ==
  [message |-> "players",
   message_details |->
     [i \in 1..Len(PlayerList) |-> PlayerJson(SortByName(PlayerList)[i])]]

\* the branch of the message loop a text frame takes
WsRoute(data) ==
  IF data = "players" THEN "players"
  ELSE IF StartsWith(data, "players") /\ Contains(data, "/cmd/") THEN "cmd"
  ELSE "ignore"

\* msg_data_parts and the three values read from it (Python indexes 1, 3, 4)
msg_data_parts(data) == Split(data, "/")
WsIndexError(data) == Len(msg_data_parts(data)) < 4
ws_player_id(data) == msg_data_parts(data)[2]
ws_cmd(data) == msg_data_parts(data)[4]
ws_cmd_args(data) ==
  IF Len(msg_data_parts(data)) = 5 THEN Some(msg_data_parts(data)[5]) ELSE None

\* the command branch for one frame: resolve the player, look the command up
\* and await it; `result` is never written back
ws_command(data, oc) ==
  IF WsIndexError(data) THEN Outcome(<<>>, None, "IndexError")
  ELSE LET player == get_player(ws_player_id(data))
           cmd == ws_cmd(data)
           cmd_args == ws_cmd_args(data)
           player_cmd == getattr(player, cmd)
       IN  IF player_cmd # "none" /\ Truthy(cmd_args)
           THEN CallAttr(player_cmd, cmd, ArgsOf(cmd_args), oc, None)
           ELSE IF player_cmd # "none"
           THEN CallAttr(player_cmd, cmd, <<>>, oc, None)
           ELSE Outcome(<<>>, None, "none")

\* the loop body for a text frame; oc is the outcome of the call the body
\* awaits last: ws.send_json for the listing, the capability for a command
ws_text(data, oc) ==
  IF WsRoute(data) = "players"
  THEN IF oc = "ok"
       THEN Outcome(<<>>, Some(players_message), "none")
       ELSE Outcome(<<>>, None, "ConnectionResetError")
  ELSE IF WsRoute(data) = "cmd" THEN ws_command(data, oc)
  ELSE Outcome(<<>>, None, "none")

\* a loop body without the test of msg.type: the data of a binary frame is
\* bytes, and bytes.startswith(str) raises TypeError
ws_message_untyped(msg, oc) ==
  IF msg.type # "TEXT" THEN Outcome(<<>>, None, "TypeError")
  ELSE ws_text(msg.data, oc)

\* one pass of the body of `async for msg in ws`
ws_message(msg, oc) ==
  IF msg.type # "TEXT" THEN Outcome(<<>>, None, "none")
  ELSE ws_text(msg.data, oc)

\* ---------------------------------------------------------- legacy protocol
\* `await player.<cap>(*args)` in json_rpc, then `return 'success'`
RpcCall(player, cap, args, oc) ==
  IF player = None THEN Outcome(<<>>, None, "AttributeError")
  ELSE CallAttr("method", cap, args, oc, Some("success"))

\* Web.json_rpc for params = [player_id, cmds]
json_rpc(player_id, cmds, oc) ==
  LET cmd_str == Join(cmds, " ")
      player == get_player(player_id)
  IN  IF cmd_str = "play" THEN RpcCall(player, "play", <<>>, oc)
      ELSE IF cmd_str = "pause" THEN RpcCall(player, "pause", <<>>, oc)
      ELSE IF cmd_str = "stop" THEN RpcCall(player, "stop", <<>>, oc)
      ELSE IF cmd_str = "next" THEN RpcCall(player, "next", <<>>, oc)
      ELSE IF cmd_str = "previous" THEN RpcCall(player, "previous", <<>>, oc)
      ELSE IF Contains(cmd_str, "power")
      THEN LET args == IF Len(cmds) > 1 THEN Str(cmds[2]) ELSE PyNone
           IN  RpcCall(player, "power", <<args>>, oc)
      ELSE IF cmd_str = "playlist index +1" THEN RpcCall(player, "next", <<>>, oc)
      ELSE IF cmd_str = "playlist index -1"
      THEN RpcCall(player, "previous", <<>>, oc)
      ELSE IF Contains(cmd_str, "mixer volume")
      THEN IF player = None THEN Outcome(<<>>, None, "AttributeError")
           ELSE IF Len(cmds) < 3 THEN Outcome(<<>>, None, "IndexError")
           ELSE RpcCall(player, "volume_set", <<Str(cmds[3])>>, oc)
      ELSE IF cmd_str = "mixer muting 1"
      THEN RpcCall(player, "volume_mute", <<PyBool(TRUE)>>, oc)
      ELSE IF cmd_str = "mixer muting 0"
      THEN RpcCall(player, "volume_mute", <<PyBool(FALSE)>>, oc)
      ELSE IF cmd_str = "button volup" THEN RpcCall(player, "volume_up", <<>>, oc)
      ELSE IF cmd_str = "button voldown"
      THEN RpcCall(player, "volume_down", <<>>, oc)
      ELSE IF cmd_str = "button power"
      THEN RpcCall(player, "power_toggle", <<>>, oc)
      ELSE Outcome(<<>>, Some("command not supported"), "none")

\* ------------------------------------------------------------------- state
VARIABLES
  pc,         \* per connection: where websocket_handler stands
  cb_id,      \* per connection: the handler's local cb_id
  transport,  \* per connection: "up", or "down" once the peer is gone
  cur,        \* per connection: the message being dispatched, or None
  unreg,      \* per connection: the ids passed to remove_event_listener
  listeners,  \* mass.event_listeners: the registered (id, sink) pairs
  next_id,    \* the next id add_event_listener hands out
  ev,         \* the last thing a handler or the event source did
  req,        \* the request under way, protocol by protocol
  out         \* the outcome of req

sessionVars == <<pc, cb_id, transport, cur, unreg, listeners, next_id, ev>>
requestVars == <<req, out>>
vars == <<pc, cb_id, transport, cur, unreg, listeners, next_id, ev, req, out>>

Conn == 1..NumConn

\* ------------------------------------------------------- request inputs
\* target ids a client may name: a known player and an unknown one
TargetIds == PlayerIds \cup {"zz"}

\* command names a client may send
CmdNames == Capabilities \cup DataAttributes \cup ObjectAttributes \cup {"bogus"}

\* the {cmd_args} of a routed REST request: absent (the route without it) or
\* a value of at least one character
RestArgs == {None, Some("42")}

\* the tokens a socket frame may hold at position i
WsToken(i) ==
  CASE i = 1 -> {"players", "playersX", "x"}
    [] i = 2 -> {"p1", "zz", "cmd"}
    [] i = 3 -> {"cmd", "x"}
    [] i = 4 -> {"pause", "volume_set", "bogus", "name", "__class__"}
    [] OTHER -> {"", "42"}

\* the token lists of length n
RECURSIVE WsTokenLists(_)
WsTokenLists(n) ==
  IF n = 0 THEN {<<>>}
  ELSE {Append(t, x) : t \in WsTokenLists(n - 1), x \in WsToken(n)}

\* the text frames: the token lists joined with `/`
WsTexts == {Join(t, "/") : t \in UNION {WsTokenLists(n) : n \in 1..MaxTokens}}

\* the messages a socket delivers
WsMsgs == {[type |-> "TEXT", data |-> d] : d \in WsTexts}
            \cup {[type |-> "BINARY", data |-> ""]}

\* the words of LMS phrases
Words ==
  {"play", "pause", "stop", "next", "previous", "power", "playlist", "index",
   "+1", "-1", "mixer", "volume", "37", "muting", "1", "0", "button",
   "volup", "voldown", "foobar"}

\* the word lists of a json_rpc request
WordLists == UNION {[1..n -> Words] : n \in 0..MaxWords}

NoOutcome == Outcome(<<>>, None, "idle")

\* ------------------------------------------------- one request at a time
\* a url whose last segment is empty matches neither route of player_command:
\* the handler is not entered and the server answers for itself
RestNoRoute ==
  /\ req = None
  /\ \E player_id \in TargetIds, cmd \in CmdNames :
       req' = Some([proto |-> "noroute", player_id |-> player_id, cmd |-> cmd,
                    cmd_args |-> Some("")])
  /\ out' = Outcome(<<>>, Some("404"), "none")
  /\ UNCHANGED sessionVars

RestRequest ==
  /\ req = None
  /\ \E player_id \in TargetIds, cmd \in CmdNames, cmd_args \in RestArgs,
        oc \in Outcomes :
       /\ req' = Some([proto |-> "rest", player_id |-> player_id, cmd |-> cmd,
                       cmd_args |-> cmd_args])
       /\ out' = player_command(player_id, cmd, cmd_args, oc)
  /\ UNCHANGED sessionVars

WsRequest ==
  /\ req = None
  /\ \E msg \in WsMsgs, oc \in Outcomes :
       /\ req' = Some([proto |-> "ws", msg |-> msg])
       /\ out' = ws_message(msg, oc)
  /\ UNCHANGED sessionVars

RpcRequest ==
  /\ req = None
  /\ \E player_id \in TargetIds, cmds \in WordLists, oc \in Outcomes :
       /\ req' = Some([proto |-> "rpc", player_id |-> player_id, cmds |-> cmds])
       /\ out' = json_rpc(player_id, cmds, oc)
  /\ UNCHANGED sessionVars

\* the server is ready for the next request
NextRequest ==
  /\ req # None
  /\ req' = None
  /\ out' = NoOutcome
  /\ UNCHANGED sessionVars

\* ------------------------------------------------- the listener registry
\* mass.add_event_listener: store the callback under a fresh id
add_event_listener(ls, id, sink) == ls \cup {[id |-> id, sink |-> sink]}

\* mass.remove_event_listener: drop the entry if there is one
remove_event_listener(ls, id) ==
  {l \in ls : id = None \/ l.id # id[1]}

\* the connections whose callback is registered
Registered == {l.sink : l \in listeners}

\* a callback that names the payload as the event source does
send_event_details(msg, msg_details) ==
  [message |-> msg, details |-> msg_details]

\* websocket_handler.send_event: what the callback writes to its socket
send_event(msg, msg_details) ==
  [message |-> msg, message_details |-> msg_details]

\* the events the event source signals
Events == {[msg |-> "player changed", details |-> "p1"]}

\* ---------------------------------------------------- websocket sessions
\* the frames the sessions receive
SessionTexts ==
  {"players", "players/p1/cmd/pause", "players/zz/cmd/pause",
   "players/cmd/x"}

SessionMsgs == {[type |-> "TEXT", data |-> d] : d \in SessionTexts}
                 \cup {[type |-> "BINARY", data |-> ""]}

\* the handler is inside `async for msg in ws`
OpenPcs == {"read", "resolve", "invoke", "send"}

\* a handler without the finally clause: an exception ends it at once
AfterFrameNoFinally(error) == IF error = "none" THEN "read" ELSE "closed"

\* try/finally: a pass of the loop body that raised leaves the loop for the
\* finally clause, any other goes on to the next message
AfterFrame(error) == IF error = "none" THEN "read" ELSE "finally"

\* a finally clause that passes the first id the registry handed out
FinallyArgFirst(c) == Some(1)

\* the argument of remove_event_listener in the finally clause
FinallyArg(c) == cb_id[c]

\* ws.send_json(ws_msg): the handler writes to the socket of its own connection
ws_send_json(c, reply) ==
  IF reply = None THEN {} ELSE {[conn |-> c, ws_msg |-> reply[1]]}

Step(kind, c) == [kind |-> kind, conn |-> c]

\* a pass of the loop body is over: the message, its outcome and what was
\* written to which socket
FrameEvent(c, msg, o) ==
  [kind |-> "frame", conn |-> c, msg |-> msg, out |-> o,
   sent |-> ws_send_json(c, o.reply)]

\* ws.prepare returns and the callback is registered
Handshake(c) ==
  /\ pc[c] = "init"
  /\ listeners' = add_event_listener(listeners, next_id, c)
  /\ cb_id' = [cb_id EXCEPT ![c] = Some(next_id)]
  /\ next_id' = next_id + 1
  /\ pc' = [pc EXCEPT ![c] = "read"]
  /\ ev' = Step("open", c)
  /\ UNCHANGED <<transport, cur, unreg, req, out>>

\* ws.prepare raises: cb_id is still None when the finally clause runs
HandshakeFail(c) ==
  /\ pc[c] = "init"
  /\ pc' = [pc EXCEPT ![c] = "finally"]
  /\ ev' = Step("refused", c)
  /\ UNCHANGED <<cb_id, transport, cur, unreg, listeners, next_id, req, out>>

\* what the loop body does with each frame the sessions receive, worked out
\* once: whether the frame reaches `await get_player`, whether it reaches
\* `await ws.send_json`, the value getattr then finds, and the outcome of the
\* whole pass for either outcome of the call it awaits
Handling ==
  [msg \in SessionMsgs |->
     LET dispatched == /\ msg.type = "TEXT"
                       /\ WsRoute(msg.data) = "cmd"
                       /\ ~WsIndexError(msg.data)
     IN  [dispatched |-> dispatched,
          listing |-> msg.type = "TEXT" /\ WsRoute(msg.data) = "players",
          player_cmd |-> IF dispatched
                         THEN getattr(get_player(ws_player_id(msg.data)),
                                      ws_cmd(msg.data))
                         ELSE "none",
          pass |-> [oc \in Outcomes |-> ws_message(msg, oc)]]]

\* a handler that takes the next message while a dispatch is under way
ReadReadyOverlapping(c) == pc[c] \in OpenPcs

\* `async for msg in ws` yields the next message once the loop body is over:
\* a message the peer sends or, when the peer is gone, one it sent before and
\* the handler has not read yet
ReadReady(c) == pc[c] = "read"

\* the handler takes the next message; a well-formed command frame goes on to
\* await get_player, the listing request to await ws.send_json, anything else
\* is dealt with on the spot
RecvFrame(c) ==
  /\ ReadReady(c)
  /\ \E msg \in SessionMsgs :
       IF Handling[msg].dispatched \/ Handling[msg].listing
       THEN /\ pc' = [pc EXCEPT ![c] =
                       IF Handling[msg].listing THEN "send" ELSE "resolve"]
            /\ cur' = [cur EXCEPT ![c] = Some(msg)]
            /\ ev' = [kind |-> "recv", conn |-> c, msg |-> msg]
       ELSE LET o == Handling[msg].pass["ok"]
            IN  /\ pc' = [pc EXCEPT ![c] = AfterFrame(o.error)]
                /\ cur' = cur
                /\ ev' = FrameEvent(c, msg, o)
  /\ UNCHANGED <<cb_id, transport, unreg, listeners, next_id, req, out>>

\* get_player returns: the command is looked up and, if found, called
Resolved(c) ==
  /\ pc[c] = "resolve"
  /\ LET msg == cur[c][1]
     IN  IF Handling[msg].player_cmd = "method"
         THEN /\ pc' = [pc EXCEPT ![c] = "invoke"]
              /\ cur' = cur
              /\ ev' = [kind |-> "call", conn |-> c, msg |-> msg]
         ELSE LET o == Handling[msg].pass["ok"]
              IN  /\ pc' = [pc EXCEPT ![c] = AfterFrame(o.error)]
                  /\ cur' = [cur EXCEPT ![c] = None]
                  /\ ev' = FrameEvent(c, msg, o)
  /\ UNCHANGED <<cb_id, transport, unreg, listeners, next_id, req, out>>

\* the awaited capability returns or raises
InvokeDone(c) ==
  /\ pc[c] = "invoke"
  /\ \E oc \in Outcomes :
       LET msg == cur[c][1]
           o == Handling[msg].pass[oc]
       IN  /\ pc' = [pc EXCEPT ![c] = AfterFrame(o.error)]
           /\ ev' = FrameEvent(c, msg, o)
  /\ cur' = [cur EXCEPT ![c] = None]
  /\ UNCHANGED <<cb_id, transport, unreg, listeners, next_id, req, out>>

\* ws.send_json returns or raises, whether or not the peer is still there
SendDone(c) ==
  /\ pc[c] = "send"
  /\ \E oc \in Outcomes :
       LET msg == cur[c][1]
           o == Handling[msg].pass[oc]
       IN  /\ pc' = [pc EXCEPT ![c] = AfterFrame(o.error)]
           /\ ev' = FrameEvent(c, msg, o)
  /\ cur' = [cur EXCEPT ![c] = None]
  /\ UNCHANGED <<cb_id, transport, unreg, listeners, next_id, req, out>>

\* the peer goes away. The handler itself does nothing about it: depending on
\* the server library the handler task is cancelled at once, at the await it
\* is suspended in, or runs on until its read of the socket ends; messages
\* the peer sent before may still lie unread
Sever(c) ==
  /\ pc[c] \in OpenPcs
  /\ transport[c] = "up"
  /\ transport' = [transport EXCEPT ![c] = "down"]
  /\ \E cancelled \in BOOLEAN :
       /\ pc' = [pc EXCEPT ![c] = IF cancelled THEN "finally" ELSE @]
       /\ cur' = [cur EXCEPT ![c] = IF cancelled THEN None ELSE @]
  /\ ev' = Step("sever", c)
  /\ UNCHANGED <<cb_id, unreg, listeners, next_id, req, out>>

\* `async for` ends: the socket is closed and nothing is left to read
ReadEnd(c) ==
  /\ pc[c] = "read"
  /\ transport[c] = "down"
  /\ pc' = [pc EXCEPT ![c] = "finally"]
  /\ ev' = Step("eof", c)
  /\ UNCHANGED <<cb_id, transport, cur, unreg, listeners, next_id, req, out>>

\* the handler task is cancelled at the await it is suspended in
Cancel(c) ==
  /\ pc[c] \in OpenPcs
  /\ pc' = [pc EXCEPT ![c] = "finally"]
  /\ cur' = [cur EXCEPT ![c] = None]
  /\ ev' = Step("cancel", c)
  /\ UNCHANGED <<cb_id, transport, unreg, listeners, next_id, req, out>>

\* the finally clause
Unregister(c) ==
  /\ pc[c] = "finally"
  /\ listeners' = remove_event_listener(listeners, FinallyArg(c))
  /\ unreg' = [unreg EXCEPT ![c] = Append(@, FinallyArg(c))]
  /\ pc' = [pc EXCEPT ![c] = "closed"]
  /\ ev' = Step("unregister", c)
  /\ UNCHANGED <<cb_id, transport, cur, next_id, req, out>>

\* the event source signals an event: every registered callback is called
Broadcast ==
  /\ \E e \in Events :
       ev' = [kind |-> "broadcast", event |-> e,
              sent |-> {[conn |-> l.sink,
                         ws_msg |-> send_event(e.msg, e.details)] :
                        l \in listeners}]
  /\ UNCHANGED <<pc, cb_id, transport, cur, unreg, listeners, next_id, req, out>>

\* ----------------------------------------------------------- specifications
Init ==
  /\ pc = [c \in Conn |-> "init"]
  /\ cb_id = [c \in Conn |-> None]
  /\ transport = [c \in Conn |-> "up"]
  /\ cur = [c \in Conn |-> None]
  /\ unreg = [c \in Conn |-> <<>>]
  /\ listeners = {}
  /\ next_id = 1
  /\ ev = [kind |-> "none"]
  /\ req = None
  /\ out = NoOutcome

SessionStep(c) ==
  \/ Handshake(c)
  \/ HandshakeFail(c)
  \/ RecvFrame(c)
  \/ Resolved(c)
  \/ InvokeDone(c)
  \/ SendDone(c)
  \/ ReadEnd(c)
  \/ Unregister(c)

Next ==
  \/ \E c \in Conn : SessionStep(c)
  \/ \E c \in Conn : Sever(c)
  \/ \E c \in Conn : Cancel(c)
  \/ Broadcast

\* the sessions, the registry and the event source
Spec == Init /\ [][Next]_vars

\* what the scheduling guarantees of a handler: a peer that is gone sends no
\* more, so the messages it left unread run out and the read of the socket
\* ends; the finally clause, once reached, makes its call of the registry.
\* The awaited get_player, capability and write are under no timeout: nothing
\* makes them return
FairSpec ==
  /\ Spec
  /\ \A c \in Conn : SF_vars(ReadEnd(c))
  /\ \A c \in Conn : WF_vars(Unregister(c))

ReqNext == RestRequest \/ RestNoRoute \/ WsRequest \/ RpcRequest \/ NextRequest

\* the three command protocols, one request at a time
ReqSpec == Init /\ [][ReqNext]_vars

\* ------------------------------------------------------------------ claims
\* a connection whose callback may still be called: it registered and has
\* not left its finally clause
Live(c) == pc[c] \in OpenPcs \/ (pc[c] = "finally" /\ cb_id[c] # None)

\* C1: on every way out of websocket_handler the session calls
\* remove_event_listener exactly once, on its way to closed and not before;
\* after the call the id it registered is no longer in the registry; and a
\* connection never has more than one registered callback.
C1_UnregisterExactlyOnce ==
  \A c \in Conn :
    /\ pc[c] = "closed" =>
         /\ Len(unreg[c]) = 1
         /\ cb_id[c] # None => \A l \in listeners : l.id # cb_id[c][1]
         /\ c \notin Registered
    /\ pc[c] # "closed" => unreg[c] = <<>>
    /\ Cardinality({l \in listeners : l.sink = c}) <= 1

\* a session that registered has been closed by its finally clause while
\* another one is still registered
C1_Witness ==
  /\ ev.kind = "unregister"
  /\ pc[ev.conn] = "closed"
  /\ cb_id[ev.conn] # None
  /\ Len(unreg[ev.conn]) = 1
  /\ \E d \in Conn : d # ev.conn /\ d \in Registered

\* C2: a session whose peer goes away while it is open (reading, or
\* suspended awaiting get_player or a capability) eventually is closed with
\* its callback out of the registry; no callback stays registered forever
\* after its connection is gone.
C2_SeveredSessionIsCleanedUp ==
  \A c \in Conn :
    [](transport[c] = "down" => <>(pc[c] = "closed" /\ c \notin Registered))

\* C3: a broadcast calls the callback of every session that is registered
\* and not yet closed, with {message, message_details}, and of no session
\* that has not registered or has completed its finally clause.
C3_BroadcastReachesLiveSessions ==
  ev.kind = "broadcast" =>
    /\ \A c \in Conn :
         Live(c) =>
           [conn |-> c,
            ws_msg |-> [message |-> ev.event.msg,
                        message_details |-> ev.event.details]] \in ev.sent
    /\ \A s \in ev.sent : Live(s.conn)

\* a broadcast reached an open session while another session, which had
\* registered, was already closed
C3_Witness ==
  /\ ev.kind = "broadcast"
  /\ \E s \in ev.sent : pc[s.conn] \in OpenPcs
  /\ \E c \in Conn : pc[c] = "closed" /\ cb_id[c] # None

\* C4: when the capability called for a socket command frame fails, the
\* session stays open: it goes on to read the next frame and its callback
\* stays registered.
C4_FailedCapabilityKeepsSessionOpen ==
  (ev.kind = "frame" /\ ev.out.error = "InvocationError") =>
    (pc[ev.conn] = "read" /\ ev.conn \in Registered)

\* a text frame that is not the bare line `players` and has fewer than four
\* tokens, or not `players` first, or not `cmd` third
MalformedFrame(data) ==
  /\ data # "players"
  /\ LET tokens == Split(data, "/")
     IN  \/ Len(tokens) < 4
         \/ tokens[1] # "players"
         \/ tokens[3] # "cmd"

\* C5: a malformed text frame calls no capability and leaves the session
\* open with its callback registered.
C5_MalformedFrameKeepsSessionOpen ==
  (ev.kind = "frame" /\ ev.msg.type = "TEXT" /\ MalformedFrame(ev.msg.data)) =>
    /\ ev.out.calls = <<>>
    /\ pc[ev.conn] = "read"
    /\ ev.conn \in Registered

\* the request names a target that get_player does not know
UnresolvedTarget(r) ==
  IF r.proto = "ws"
  THEN /\ r.msg.type = "TEXT"
       /\ WsRoute(r.msg.data) = "cmd"
       /\ ~WsIndexError(r.msg.data)
       /\ get_player(ws_player_id(r.msg.data)) = None
  ELSE get_player(r.player_id) = None

\* C6: on each of the three protocols a request for an unresolved target
\* calls no capability and ends normally, not with an unhandled exception.
C6_UnresolvedTargetInvokesNothing ==
  (req # None /\ UnresolvedTarget(req[1])) =>
    (out.calls = <<>> /\ out.error = "none")

\* C7: json_rpc answers every request with `success` or with
\* `command not supported`.
C7_LegacyAlwaysAnswers ==
  (req # None /\ req[1].proto = "rpc") =>
    out.reply \in {Some("success"), Some("command not supported")}

\* the call the phrase table names for a word list, as a sequence: one call
\* for a phrase of the table, none otherwise
PhraseCall(cmds) ==
  LET phrase == Join(cmds, " ")
      call(cap, args) == <<[cap |-> cap, args |-> args]>>
  IN  IF phrase \in {"play", "pause", "stop", "next", "previous"}
      THEN call(phrase, <<>>)
      ELSE IF phrase = "playlist index +1" THEN call("next", <<>>)
      ELSE IF phrase = "playlist index -1" THEN call("previous", <<>>)
      ELSE IF Contains(phrase, "mixer volume") /\ Len(cmds) >= 3
      THEN call("volume_set", <<Str(cmds[3])>>)
      ELSE IF phrase = "mixer muting 1"
      THEN call("volume_mute", <<PyBool(TRUE)>>)
      ELSE IF phrase = "mixer muting 0"
      THEN call("volume_mute", <<PyBool(FALSE)>>)
      ELSE IF phrase = "button volup" THEN call("volume_up", <<>>)
      ELSE IF phrase = "button voldown" THEN call("volume_down", <<>>)
      ELSE <<>>

\* C8: for a known player, a phrase of the table makes exactly the call the
\* table names (a phrase containing `mixer volume` calls volume_set with the
\* third word), and `foobar` makes none and is answered with
\* `command not supported`.
C8_LegacyPhraseMapping ==
  (req # None /\ req[1].proto = "rpc" /\ get_player(req[1].player_id) # None) =>
    LET cmds == req[1].cmds
        phrase == Join(cmds, " ")
    IN  /\ PhraseCall(cmds) # <<>> => out.calls = PhraseCall(cmds)
        /\ Contains(phrase, "mixer volume") =>
             (Len(out.calls) = 1 /\ out.calls[1].cap = "volume_set")
        /\ phrase = "foobar" =>
             (out.calls = <<>> /\ out.reply = Some("command not supported"))

\* C9: for a known player t and a capability c, the frame players/t/cmd/c
\* calls c with no argument and the frame players/t/cmd/c/a calls c with
\* exactly the argument a.
C9_TokenStreamDispatch ==
  (req # None /\ req[1].proto = "ws" /\ req[1].msg.type = "TEXT") =>
    LET tokens == Split(req[1].msg.data, "/")
    IN  (/\ Len(tokens) \in {4, 5}
         /\ tokens[1] = "players"
         /\ tokens[3] = "cmd"
         /\ get_player(tokens[2]) # None
         /\ tokens[4] \in Capabilities) =>
          out.calls =
            <<[cap |-> tokens[4],
               args |-> IF Len(tokens) = 4 THEN <<>> ELSE <<Str(tokens[5])>>]>>

\* C10: once a session has dealt with a command frame and is back reading,
\* it has written that command's result to its socket.
C10_CommandResultWritten ==
  (/\ ev.kind = "frame"
   /\ ev.msg.type = "TEXT"
   /\ WsRoute(ev.msg.data) = "cmd"
   /\ pc[ev.conn] = "read") =>
    ev.out.reply # None

\* C11: in player_command a recognized command whose capability fails (wrong
\* or missing argument, or an internal failure) is answered with a
\* dispatch-failure reply; the failure does not leave the handler.
C11_RestFailureIsReplied ==
  (/\ req # None
   /\ req[1].proto = "rest"
   /\ get_player(req[1].player_id) # None
   /\ req[1].cmd \in Capabilities) =>
    (out.error = "none" /\ out.reply # None)

\* C12: within a connection the dispatch of a frame (await get_player, then
\* await the capability) is over before the dispatch of the next one starts:
\* the frame under way is never replaced, resolution starts only from the
\* read of a message with no frame under way, and invocation only from the
\* resolution of the same frame.
C12_FramesInArrivalOrder ==
  [][\A c \in Conn :
       /\ cur[c] # None => cur'[c] \in {cur[c], None}
       /\ (pc'[c] = "resolve" /\ pc[c] # "resolve") =>
            (pc[c] = "read" /\ cur[c] = None)
       /\ (pc'[c] = "invoke" /\ pc[c] # "invoke") =>
            (pc[c] = "resolve" /\ cur'[c] = cur[c])]_vars

\* a connection starts the dispatch of a frame while another connection is
\* still awaiting its capability
C12_Witness ==
  /\ ev.kind = "recv"
  /\ pc[ev.conn] = "resolve"
  /\ \E d \in Conn : d # ev.conn /\ pc[d] = "invoke"

\* C13: once the close of a connection is triggered (the peer is
\* gone, or the handler is in or past its finally clause) no target
\* resolution and no capability invocation begins for it.
C13_NoDispatchAfterCloseTriggered ==
  [][\A c \in Conn :
       (transport[c] = "down" \/ pc[c] \in {"finally", "closed"}) =>
         ~(pc'[c] \in {"resolve", "invoke"} /\ pc'[c] # pc[c])]_vars

\* the command of a request is no capability of the player it resolves to
UnknownCommand(r) ==
  IF r.proto = "ws"
  THEN /\ r.msg.type = "TEXT"
       /\ WsRoute(r.msg.data) = "cmd"
       /\ ~WsIndexError(r.msg.data)
       /\ get_player(ws_player_id(r.msg.data)) # None
       /\ ws_cmd(r.msg.data) \notin Capabilities
  ELSE /\ r.proto = "rest"
       /\ get_player(r.player_id) # None
       /\ r.cmd \notin Capabilities

\* C14: on the REST and the socket path a command name that is no capability
\* of the player calls nothing and ends normally, REST replying false.
C14_UnknownCommandIsNotInvoked ==
  (req # None /\ UnknownCommand(req[1])) =>
    /\ out.calls = <<>>
    /\ out.error = "none"
    /\ req[1].proto = "rest" => out.reply = Some("false")

\* C15: the word list ["button", "power"] calls power_toggle with no
\* argument and nothing else.
C15_ButtonPowerToggles ==
  (/\ req # None
   /\ req[1].proto = "rpc"
   /\ get_player(req[1].player_id) # None
   /\ req[1].cmds = <<"button", "power">>) =>
    out.calls = <<[cap |-> "power_toggle", args |-> <<>>]>>

\* C16: a word list that matches `mixer volume` but has no third word calls
\* nothing and is answered with `command not supported`.
C16_MissingArgumentNotSupported ==
  (/\ req # None
   /\ req[1].proto = "rpc"
   /\ get_player(req[1].player_id) # None
   /\ Contains(Join(req[1].cmds, " "), "mixer volume")
   /\ ~Contains(Join(req[1].cmds, " "), "power")
   /\ Len(req[1].cmds) < 3) =>
    (out.calls = <<>> /\ out.reply = Some("command not supported"))

\* the players of the listing are all the players, and no name is followed by
\* a smaller one
OrderedByName(details) ==
  /\ {details[i].player_id : i \in 1..Len(details)} = PlayerIds
  /\ Len(details) = Cardinality(PlayerIds)
  /\ \A i \in 1..Len(details) :
       details[i].name = PlayerName(details[i].player_id)
  /\ \A i \in 1..(Len(details) - 1) :
       ~StrLess(details[i + 1].name, details[i].name)

C18_NonTextFrameIgnored ==
  [][(ev'.kind = "frame" /\ ev'.msg.type # "TEXT") =>
       /\ pc' = pc
       /\ pc'[ev'.conn] = "read"
       /\ listeners' = listeners
       /\ cb_id' = cb_id
       /\ unreg' = unreg
       /\ ev'.out.calls = <<>>
       /\ ev'.sent = {}]_vars

\* a registered session has just passed over a binary frame
C18_Witness ==
  /\ ev.kind = "frame"
  /\ ev.msg.type = "BINARY"
  /\ pc[ev.conn] = "read"
  /\ ev.conn \in Registered

\* the socket frame for the triple of a REST request
FrameOf(r) ==
  [type |-> "TEXT",
   data |-> Join(<<"players", r.player_id, "cmd", r.cmd>>
                   \o (IF r.cmd_args = None THEN <<>> ELSE <<r.cmd_args[1]>>),
                 "/")]

\* C19: a REST request and the socket frame with the same target, command
\* and optional argument (empty, absent or a value) make the same capability
\* call, or both make none.
C19_RestAndSocketAgree ==
  (req # None /\ req[1].proto \in {"rest", "noroute"}) =>
    out.calls = ws_message(FrameOf(req[1]), "ok").calls

\* C20 as claimed: every argument of remove_event_listener is the id the
\* session got from add_event_listener, and a session that never registered
\* makes no call.
C20_UnregisterOnlyOwnId ==
  \A c \in Conn :
    /\ cb_id[c] = None => unreg[c] = <<>>
    /\ \A k \in 1..Len(unreg[c]) : unreg[c][k] # None /\ unreg[c][k] = cb_id[c]

\* C20 as amended: every argument of remove_event_listener is the session's
\* own cb_id: the id it got from add_event_listener, which no other session
\* got, or None if it never registered; a session that never registered
\* makes its one call with None.
C20_UnregisterOwnIdOrNone ==
  \A c \in Conn :
    /\ \A k \in 1..Len(unreg[c]) :
         /\ unreg[c][k] = cb_id[c]
         /\ unreg[c][k] # None =>
              \A d \in Conn \ {c} : cb_id[d] # unreg[c][k]
    /\ (pc[c] = "closed" /\ cb_id[c] = None) => unreg[c] = <<None>>

\* a session whose handshake failed and a session that had registered have
\* both made their call
C20_Witness ==
  \E c, d \in Conn :
    /\ unreg[c] = <<None>>
    /\ Len(unreg[d]) = 1
    /\ unreg[d][1] # None
====
